---- MODULE Spec2Model ----
(***************************************************************************)
(* Books library backend (gateway_backend): the request handlers of        *)
(* handlers/book_handlers.py, handlers/admin_handlers.py and               *)
(* handlers/s3_handlers.py over the two DynamoDB tables (Books, UserBooks) *)
(* and the S3 bucket, with the helpers of utils/.  Every store call of a   *)
(* handler is one atomic step; two invocations at a time interleave.       *)
(***************************************************************************)
EXTENDS Integers, Sequences, FiniteSets, TLC

\* ------------------------------------------------------------------------
\* Bounds of the model
\* ------------------------------------------------------------------------
\* number of handler invocations of a behaviour that reach a store call
MaxCalls == 3
\* largest value of the wall clock (datetime.now)
MaxClock == 1

\* ------------------------------------------------------------------------
\* config.py
\* ------------------------------------------------------------------------
URL_EXPIRY_SECONDS == 3600
MAX_STRING_LENGTH == 500
\* 5 GiB, counted in KiB (TLC integers are 32 bit)
MAX_FILE_SIZE_BYTES == 5 * 1024 * 1024
MAX_SERIES_ORDER == 100
MIN_SERIES_ORDER == 1
BUCKET_NAME == "bkt"
BOOKS_PREFIX == "books/"

\* ------------------------------------------------------------------------
\* Universe of inputs
\* ------------------------------------------------------------------------
Procs == {"p1", "p2"}
Users == {"u1", "u2"}
\* filename stems: plain title, and the "Author - Title" convention
Tokens == {"k1", "k2", "a0"}
Stems == {"k1", "a0 - k2"}
Filenames == {s \o ".zip" : s \in Stems}
Keys == {BOOKS_PREFIX \o f : f \in Filenames}
Ids == Stems
CoverUrls == {"c1"}
\* a string of 501 characters
LongString == "xxxxxxxxxxxxxxxxxxxxxxxxxxxxxxxxxxxxxxxxxxxxxxxxxxxxxxxxxxxxxxxxxxxxxxxxxxxxxxxxxxxxxxxxxxxxxxxxxxxxxxxxxxxxxxxxxxxxxxxxxxxxxxxxxxxxxxxxxxxxxxxxxxxxxxxxxxxxxxxxxxxxxxxxxxxxxxxxxxxxxxxxxxxxxxxxxxxxxxxxxxxxxxxxxxxxxxxxxxxxxxxxxxxxxxxxxxxxxxxxxxxxxxxxxxxxxxxxxxxxxxxxxxxxxxxxxxxxxxxxxxxxxxxxxxxxxxxxxxxxxxxxxxxxxxxxxxxxxxxxxxxxxxxxxxxxxxxxxxxxxxxxxxxxxxxxxxxxxxxxxxxxxxxxxxxxxxxxxxxxxxxxxxxxxxxxxxxxxxxxxxxxxxxxxxxxxxxxxxxxxxxxxxxxxxxxxxxxxxxxxxxxxxxxxxxxxxxxxxxxxxxxxxxxxxxxxxxxxxxxxxxxxxxxxxxxxxxxxxxxx"

\* Python None where a string is expected (dict.get without default)
PyNone == "<None>"
EmptyMap == [x \in {} |-> 0]
\* dict.get(k, default)
Get(d, k, default) == IF k \in DOMAIN d THEN d[k] ELSE default
\* dict with d[k] = v
Put(d, k, v) == [x \in DOMAIN d \cup {k} |-> IF x = k THEN v ELSE d[x]]
\* dict without k
Drop(d, k) == [x \in DOMAIN d \ {k} |-> d[x]]
\* `not x` for a string or None
Falsy(x) == x = PyNone \/ x = ""

\* JSON values of a request body, tagged by their Python type
JNull == [k |-> "null"]
JBool(b) == [k |-> "bool", v |-> b]
JInt(n) == [k |-> "int", v |-> n]
JStr(s) == [k |-> "str", v |-> s]
JList == [k |-> "list"]
IsStr(x) == x.k = "str"

\* str.strip() on the strings of the universe
Strip(s) == IF s = "  " THEN "" ELSE IF s = " a1 " THEN "a1" ELSE s
\* the decimal strings of the universe, for int(str)
DigitStrings == [s \in {"7", "500"} |-> IF s = "7" THEN 7 ELSE 500]
\* urllib.parse.unquote on the strings of the universe
Unquote(s) == IF s = "a0%20-%20k2" THEN "a0 - k2" ELSE s

\* ------------------------------------------------------------------------
\* utils/response.py
\* ------------------------------------------------------------------------
api_response(status_code, body) == [statusCode |-> status_code, body |-> body]

error_response(status_code, error, message) ==
    api_response(status_code, [error |-> error, message |-> message])

\* "no error" result of a validator (Python None)
NoError == [statusCode |-> 0, body |-> EmptyMap]
IsError(e) == e.statusCode # 0

serialize_book_response(book_item, read_status) ==
    LET base == [id |-> Get(book_item, "id", PyNone),
                 name |-> Get(book_item, "name", PyNone),
                 created |-> Get(book_item, "created", PyNone),
                 read |-> read_status,
                 s3_url |-> Get(book_item, "s3_url", PyNone)]
        optional == {"author", "size", "series_name", "series_order"} \cap DOMAIN book_item
    IN  [a \in DOMAIN base \cup optional |->
            IF a \in DOMAIN base THEN base[a] ELSE book_item[a]]

\* ------------------------------------------------------------------------
\* utils/auth.py
\* ------------------------------------------------------------------------
\* event["requestContext"]["authorizer"]["claims"], {} when any level is missing
ClaimsOf(event) == event.claims

get_user_id(event) == Get(ClaimsOf(event), "sub", PyNone)

\* the comma separated group strings of the universe, split and stripped
SplitGroups(s) ==
    IF s = "admins" THEN {"admins"}
    ELSE IF s = "users" THEN {"users"}
    ELSE IF s = "users, admins" THEN {"users", "admins"}
    ELSE {}

get_user_groups(event) ==
    LET groups_str == Get(ClaimsOf(event), "cognito:groups", "")
    IN  IF Falsy(groups_str) THEN {} ELSE SplitGroups(groups_str)

\* a check of the group list that lets every caller through: the handlers the
\* properties of the admin gate must tell apart from the real ones
is_admin_anyone(event) == TRUE

is_admin(event) == "admins" \in get_user_groups(event)

\* ------------------------------------------------------------------------
\* utils/validation.py
\* ------------------------------------------------------------------------
\* (decoded_value, error_response)
get_path_param(event, param) ==
    LET path_params == event.pathParameters
    IN  IF DOMAIN path_params = {} \/ param \notin DOMAIN path_params
        THEN [value |-> PyNone,
              error |-> error_response(400, "Bad Request", "Id is required in path")]
        ELSE [value |-> Unquote(path_params[param]), error |-> NoError]

\* (parsed_body, error_response); event.body is the parsed object, or not JSON
parse_json_body(event) ==
    IF event.body.json
    THEN [value |-> event.body.obj, error |-> NoError]
    ELSE [value |-> EmptyMap,
          error |-> error_response(400, "Bad Request", "Invalid JSON in request body")]

validate_string_field(body, field, max_length, required) ==
    IF field \notin DOMAIN body
    THEN IF required
         THEN error_response(400, "Bad Request", "Field is required")
         ELSE NoError
    ELSE LET value == body[field]
         IN  IF ~IsStr(value)
             THEN error_response(400, "Bad Request", "Field must be a string")
             ELSE IF Len(value.v) > max_length
             THEN error_response(400, "Bad Request", "Field exceeds maximum length")
             ELSE IF required /\ Strip(value.v) = ""
             THEN error_response(400, "Bad Request", "Field cannot be empty")
             ELSE NoError

validate_boolean_field(body, field) ==
    IF field \in DOMAIN body /\ body[field].k # "bool"
    THEN error_response(400, "Bad Request", "Field must be a boolean")
    ELSE NoError

\* int(x): [ok, v]; ok = FALSE stands for ValueError / TypeError
PyInt(x) ==
    IF x.k = "int" THEN [ok |-> TRUE, v |-> x.v]
    ELSE IF x.k = "bool" THEN [ok |-> TRUE, v |-> IF x.v THEN 1 ELSE 0]
    ELSE IF x.k = "str" /\ x.v \in DOMAIN DigitStrings
    THEN [ok |-> TRUE, v |-> DigitStrings[x.v]]
    ELSE [ok |-> FALSE, v |-> 0]

validate_series_order(body) ==
    IF "series_order" \notin DOMAIN body THEN NoError
    ELSE LET series_order == body["series_order"]
         IN  IF series_order = JNull THEN NoError
             ELSE IF ~PyInt(series_order).ok
             THEN error_response(400, "Bad Request", "series_order must be an integer")
             ELSE IF PyInt(series_order).v < MIN_SERIES_ORDER
                     \/ PyInt(series_order).v > MAX_SERIES_ORDER
             THEN error_response(400, "Bad Request",
                                 "series_order must be between 1 and 100")
             ELSE NoError

\* ------------------------------------------------------------------------
\* utils/dynamodb.py
\* ------------------------------------------------------------------------
\* (update_expression, expression_attribute_values, expression_attribute_names);
\* the expression is kept as its SET and REMOVE clauses
\* an expression builder that removes null and empty values whatever the flag
build_update_expression_removing(fields, allow_remove) ==
    LET removed == {f \in DOMAIN fields : fields[f] = JNull \/ fields[f] = JStr("")}
        assigned == DOMAIN fields \ removed
    IN  [update_expression |->
            [SET |-> {<<"#" \o f, ":" \o f>> : f \in assigned},
             REMOVE |-> {"#" \o f : f \in removed}],
         expr_attr_values |-> [ph \in {":" \o f : f \in assigned} |->
            fields[CHOOSE f \in assigned : ":" \o f = ph]],
         expr_attr_names |-> [ph \in {"#" \o f : f \in DOMAIN fields} |->
            CHOOSE f \in DOMAIN fields : "#" \o f = ph]]

build_update_expression(fields, allow_remove) ==
    LET removed == {f \in DOMAIN fields :
                      allow_remove /\ (fields[f] = JNull \/ fields[f] = JStr(""))}
        assigned == DOMAIN fields \ removed
    IN  [update_expression |->
            [SET |-> {<<"#" \o f, ":" \o f>> : f \in assigned},
             REMOVE |-> {"#" \o f : f \in removed}],
         expr_attr_values |-> [ph \in {":" \o f : f \in assigned} |->
            fields[CHOOSE f \in assigned : ":" \o f = ph]],
         expr_attr_names |-> [ph \in {"#" \o f : f \in DOMAIN fields} |->
            CHOOSE f \in DOMAIN fields : "#" \o f = ph]]

build_update_params(key, fields, allow_remove, condition_expression, return_values) ==
    LET b == build_update_expression(fields, allow_remove)
        params == [Key |-> key,
                   UpdateExpression |-> b.update_expression,
                   ExpressionAttributeNames |-> b.expr_attr_names,
                   ReturnValues |-> return_values]
        withValues == IF DOMAIN b.expr_attr_values # {}
                      THEN Put(params, "ExpressionAttributeValues", b.expr_attr_values)
                      ELSE params
    IN  IF condition_expression # PyNone
        THEN Put(withValues, "ConditionExpression", condition_expression)
        ELSE withValues

\* ------------------------------------------------------------------------
\* utils/cover.py
\* ------------------------------------------------------------------------
\* a cover refresh that does not compare the authors
update_cover_always(current_author, new_author, title, metadata_fields, cover_url) ==
    IF ~Falsy(cover_url)
    THEN Put(metadata_fields, "coverImageUrl", JStr(cover_url))
    ELSE Put(metadata_fields, "coverImageUrl", JNull)

\* fetch_cover_url calls an external service: its result (a URL, or None for
\* no match and for every failure) is an input, `cover_url`
update_cover_on_author_change(current_author, new_author, title, metadata_fields, cover_url) ==
    IF ~Falsy(new_author) /\ new_author # current_author
    THEN IF ~Falsy(cover_url)
         THEN Put(metadata_fields, "coverImageUrl", JStr(cover_url))
         ELSE Put(metadata_fields, "coverImageUrl", JNull)
    ELSE metadata_fields

\* ------------------------------------------------------------------------
\* The stores (boto3 calls of the handlers)
\* ------------------------------------------------------------------------
\* books_table.get_item / user_books_table.get_item: the response
GetItem(table, key) ==
    IF key \in DOMAIN table THEN [Item |-> table[key]] ELSE EmptyMap

\* put_item: full replace of the item under its key
PutItem(table, key, item) == Put(table, key, item)

\* user_books_table.delete_item, unconditional
DeleteItem(table, key) == Drop(table, key)

\* a delete that answers success and removes nothing: the store the properties
\* of a deleted book must tell apart from the real one
ConditionalDeleteKeeps(table, key) == [error |-> PyNone, table |-> table]

\* books_table.delete_item(ConditionExpression="attribute_exists(id)")
ConditionalDelete(table, key) ==
    IF key \in DOMAIN table
    THEN [error |-> PyNone, table |-> Drop(table, key)]
    ELSE [error |-> "ConditionalCheckFailedException", table |-> table]

\* an update that writes the item anew from its key and the assigned values
ApplyUpdateReplacing(item, params) ==
    LET names == params.ExpressionAttributeNames
        values == Get(params, "ExpressionAttributeValues", EmptyMap)
        sets == params.UpdateExpression.SET
        assigned == {names[c[1]] : c \in sets}
        valueOf(a) == values[(CHOOSE c \in sets : names[c[1]] = a)[2]].v
    IN  [a \in {"id"} \cup assigned |-> IF a \in assigned THEN valueOf(a) ELSE item[a]]

\* the item after an update expression's SET and REMOVE clauses
ApplyUpdate(item, params) ==
    LET names == params.ExpressionAttributeNames
        values == Get(params, "ExpressionAttributeValues", EmptyMap)
        sets == params.UpdateExpression.SET
        assigned == {names[c[1]] : c \in sets}
        removed == {names[n] : n \in params.UpdateExpression.REMOVE}
        valueOf(a) == values[(CHOOSE c \in sets : names[c[1]] = a)[2]].v
    IN  [a \in (DOMAIN item \cup assigned) \ removed |->
            IF a \in assigned THEN valueOf(a) ELSE item[a]]

\* books_table.update_item(**params): error, the table after, ALL_NEW attributes
UpdateItem(table, params) ==
    LET key == params.Key.id
        exists == key \in DOMAIN table
    IN  IF "ConditionExpression" \in DOMAIN params /\ ~exists
        THEN [error |-> "ConditionalCheckFailedException", table |-> table,
              Attributes |-> EmptyMap]
        ELSE LET new == ApplyUpdate(IF exists THEN table[key] ELSE params.Key, params)
             IN  [error |-> PyNone, table |-> Put(table, key, new), Attributes |-> new]

\* The order in which a scan walks the keys of a table (fixed by the store)
BooksOrder == <<"k1", "a0 - k2">>
UserBooksOrder == <<<<"u1", "k1">>, <<"u2", "k1">>, <<"u1", "a0 - k2">>, <<"u2", "a0 - k2">>>>

IndexOf(order, key) == CHOOSE i \in 1..Len(order) : order[i] = key

\* keys of the table a scan has still to evaluate after ExclusiveStartKey
Remaining(table, order, start) ==
    LET from == IF start = PyNone THEN 0 ELSE IndexOf(order, start)
    IN  SelectSeq(order, LAMBDA k : k \in DOMAIN table /\ IndexOf(order, k) > from)

\* one page of table.scan: the store evaluates the next n keys (its 1 MB limit
\* decides n) and sets LastEvaluatedKey when it stopped before the end
ScanPage(table, order, start, n) ==
    LET rest == Remaining(table, order, start)
        page == SubSeq(rest, 1, n)
        resp == [Items |-> [i \in 1..Len(page) |-> table[page[i]]]]
    IN  IF n < Len(rest) THEN Put(resp, "LastEvaluatedKey", page[n]) ELSE resp

\* page sizes the store may choose for a scan that has `rest` keys to evaluate
PageSizes(rest) == IF Len(rest) = 0 THEN {0} ELSE 1..Len(rest)

\* a query without the key condition: the rows of every user, the store the
\* properties of per-user read status must tell apart from the real one
QueryEveryUser(table, uid) ==
    LET keys == SelectSeq(UserBooksOrder, LAMBDA k : k \in DOMAIN table)
    IN  [Items |-> [i \in 1..Len(keys) |-> table[keys[i]]]]

\* user_books_table.query(KeyConditionExpression="userId = :uid")
Query(table, uid) ==
    LET keys == SelectSeq(UserBooksOrder, LAMBDA k : k \in DOMAIN table /\ k[1] = uid)
    IN  [Items |-> [i \in 1..Len(keys) |-> table[keys[i]]]]

\* s3://bucket/key, and urlparse of it: netloc and path.lstrip("/")
S3Url(bucket, key) == "s3://" \o bucket \o "/" \o key
ParseS3Url(s3_url) ==
    CHOOSE r \in [bucket : {BUCKET_NAME}, key : Keys] : S3Url(r.bucket, r.key) = s3_url


\* ------------------------------------------------------------------------
\* State
\* ------------------------------------------------------------------------
VARIABLES
    books,      \* Books table: id -> item
    userBooks,  \* UserBooks table: <<userId, bookId>> -> item
    blobs,      \* S3 bucket: key -> [tags, size]
    now,        \* last value read from the wall clock
    calls,      \* handler invocations that reached a store call so far
    faults,     \* whether store calls may fail in this behaviour
    pc,         \* per invocation slot: the store call it is about to make
    loc,        \* per invocation slot: the handler's local variables
    tomb,       \* per invocation slot: the ids in `deleted` since before it began
    deleted,    \* ids whose delete returned 200 and that were not ingested since
    last        \* the invocation that returned in the step just taken, if any

vars == <<books, userBooks, blobs, now, calls, faults, pc, loc, tomb, deleted, last>>

NoLast == [handler |-> PyNone]

\* outcomes of a store call: TRUE it answers, FALSE it raises an error that is
\* not the failed condition (throttling, network)
Outcomes == IF faults THEN BOOLEAN ELSE {TRUE}

\* a store call may also raise something that is no ClientError (a connection
\* error, a parameter error), which only a handler's outermost except catches
Raises == IF faults THEN BOOLEAN ELSE {FALSE}

\* values the wall clock may show when it is read
ClockValues == now..MaxClock

\* a new invocation takes the lowest free slot; where store calls may fail the
\* invocations run one at a time
LowerSlots(p) == IF p = "p2" THEN {"p1"} ELSE {}

\* the platform starts an invocation of a handler in slot p
Begin(p) ==
    /\ pc[p] = "idle"
    /\ calls < MaxCalls
    /\ \A q \in LowerSlots(p) : pc[q] # "idle"
    /\ faults => p = "p1"

\* An invocation that returns before its first store call neither reads nor
\* writes shared state and its response is a function of its event alone: its
\* step commutes with every other step, and it is taken before the first
\* invocation that calls a store.
Quiescent == calls = 0 /\ \A q \in Procs : pc[q] = "idle"

\* the handler goes on to its next store call
Goto(p, label, locals) ==
    /\ pc' = [pc EXCEPT ![p] = label]
    /\ loc' = [loc EXCEPT ![p] = locals]
    /\ tomb' = [tomb EXCEPT ![p] = IF pc[p] = "idle" THEN deleted ELSE @]
    /\ calls' = IF pc[p] = "idle" THEN calls + 1 ELSE calls
    /\ last' = NoLast

\* the handler returns the response; `locals` are its variables at that point,
\* `ingested` the ids whose Books item this very step has put
ReturnAfter(p, locals, response, ingested) ==
    /\ pc[p] = "idle" => Quiescent
    /\ pc' = [pc EXCEPT ![p] = "idle"]
    /\ loc' = [loc EXCEPT ![p] = EmptyMap]
    /\ tomb' = [q \in Procs |-> IF q = p THEN {} ELSE tomb[q] \ ingested]
    /\ calls' = calls
    /\ last' = [handler |-> locals.handler, call |-> locals, response |-> response,
                tomb |-> IF pc[p] = "idle" THEN deleted ELSE tomb[p]]

Return(p, locals, response) == ReturnAfter(p, locals, response, {})

\* ------------------------------------------------------------------------
\* Requests
\* ------------------------------------------------------------------------
Claims(sub, groups) ==
    [c \in {"sub", "cognito:groups"} |-> IF c = "sub" THEN sub ELSE groups]

UserClaims == Claims("u1", "users")
AdminClaims == Claims("u2", "users, admins")
\* an admin group list without a subject claim
GroupOnlyClaims == Drop(AdminClaims, "sub")

IdParams == {[id |-> "k1"], [id |-> "a0%20-%20k2"]}

Json(obj) == [json |-> TRUE, obj |-> obj]
NotJson == [json |-> FALSE, obj |-> EmptyMap]

ApiEvent(claims, pathParameters, body) ==
    [claims |-> claims, pathParameters |-> pathParameters, body |-> body]

\* ------------------------------------------------------------------------
\* handlers/book_handlers.py: update_book_handler
\* ------------------------------------------------------------------------
ValidUpdateBodies ==
    { [read |-> JBool(TRUE)],
      [read |-> JBool(FALSE)],
      [author |-> JStr("a1")],
      [author |-> JStr(""), series_order |-> JNull],
      [series_name |-> JStr("s1"), series_order |-> JStr("7")],
      [series_order |-> JBool(TRUE)],
      [read |-> JBool(TRUE), name |-> JStr("n1"), series_order |-> JInt(100)] }

InvalidUpdateBodies ==
    { EmptyMap,
      [read |-> JStr("x")],
      [author |-> JInt(1)],
      [author |-> JStr(LongString)],
      [name |-> JStr("  ")],
      [series_order |-> JInt(0)],
      [series_order |-> JInt(101)],
      [read |-> JBool(TRUE), series_order |-> JInt(101)],
      [series_order |-> JStr("x")],
      [series_order |-> JList] }

\* requests of the first slot
UpdateEvents ==
    {ApiEvent(UserClaims, [id |-> "k1"], Json(b)) : b \in ValidUpdateBodies}
    \cup {ApiEvent(UserClaims, [id |-> "a0%20-%20k2"], Json([read |-> JBool(TRUE)]))}
    \cup {ApiEvent(AdminClaims, [id |-> "k1"], Json([read |-> JBool(TRUE)]))}
    \cup {ApiEvent(UserClaims, [id |-> "k1"], Json(b)) : b \in InvalidUpdateBodies}
    \cup {ApiEvent(UserClaims, [id |-> "k1"], NotJson)}
    \cup {ApiEvent(c, [id |-> "k1"], Json([read |-> JBool(TRUE)])) :
            c \in {EmptyMap, GroupOnlyClaims}}
    \cup {ApiEvent(UserClaims, EmptyMap, Json([read |-> JBool(TRUE)]))}

\* requests of the second slot, the concurrent writer
ConcurrentUpdateEvents ==
    {ApiEvent(AdminClaims, [id |-> "k1"], Json([read |-> JBool(TRUE)])),
     ApiEvent(UserClaims, [id |-> "k1"],
              Json([author |-> JStr("a2"), series_order |-> JInt(1)]))}

\* the first failing check of lines 301-325, or NoError
update_book_validate(body) ==
    LET e1 == validate_boolean_field(body, "read")
        e2 == validate_string_field(body, "author", 500, FALSE)
        e3 == validate_string_field(body, "name", 500, FALSE)
        e4 == validate_string_field(body, "series_name", 500, FALSE)
    IN  IF IsError(e1) THEN e1
        ELSE IF IsError(e2) THEN e2
        ELSE IF IsError(e3) THEN e3
        ELSE IF IsError(e4) THEN e4
        ELSE IF "name" \in DOMAIN body /\ Strip(body["name"].v) = ""
        THEN error_response(400, "Bad Request", "Field name cannot be empty")
        ELSE validate_series_order(body)

\* lines 331-332: user_specific_fields of a validated body
user_specific_fields(body) ==
    [f \in {"read"} \cap DOMAIN body |-> body[f].v]

\* lines 333-344: book_metadata_fields of a validated body
book_metadata_fields(body) ==
    [f \in {"author", "name", "series_name", "series_order"} \cap DOMAIN body |->
        IF f = "series_order"
        THEN IF body[f] = JNull \/ body[f] = JStr("")
             THEN JNull
             ELSE JInt(PyInt(body[f]).v)
        ELSE body[f]]

\* a handler that writes the read status whatever fields the body has
update_first_call_status(ufields, mfields) == "update_user_book_status"

\* lines 349-358: the store call that follows the split of the fields
update_first_call(ufields, mfields) ==
    IF DOMAIN ufields # {} THEN "update_user_book_status"
    ELSE IF "author" \in DOMAIN mfields THEN "update_get_current"
    ELSE "update_book_metadata"

\* lines 283-347: the handler up to its first store call
UpdateBegin(p) ==
    /\ Begin(p)
    /\ \E event \in IF p = "p1" THEN UpdateEvents ELSE ConcurrentUpdateEvents :
        LET user_id == get_user_id(event)
            param == get_path_param(event, "id")
            parsed == parse_json_body(event)
            body == parsed.value
            invalid == update_book_validate(body)
            ufields == user_specific_fields(body)
            mfields == book_metadata_fields(body)
            call == [handler |-> "update_book_handler", claims |-> event.claims,
                     event |-> event]
            locals == [handler |-> "update_book_handler", claims |-> event.claims,
                       event |-> event,
                       user_id |-> user_id, book_id |-> param.value,
                       user_specific_fields |-> ufields,
                       book_metadata_fields |-> mfields]
        IN  IF Falsy(user_id)
            THEN Return(p, call, error_response(401, "Unauthorized", "User not authenticated"))
            ELSE IF IsError(param.error) THEN Return(p, call, param.error)
            ELSE IF IsError(parsed.error) THEN Return(p, call, parsed.error)
            ELSE IF IsError(invalid) THEN Return(p, call, invalid)
            ELSE IF DOMAIN ufields = {} /\ DOMAIN mfields = {}
            THEN Return(p, call, error_response(400, "Bad Request", "No valid fields to update"))
            ELSE Goto(p, update_first_call(ufields, mfields), locals)
    /\ UNCHANGED <<books, userBooks, blobs, now, faults, deleted>>

\* lines 107-114: the item _update_user_book_status puts
put_user_book_status(table, user_id, book_id, read, updated) ==
    PutItem(table, <<user_id, book_id>>,
            [userId |-> user_id, bookId |-> book_id, read |-> read, updated |-> updated])

\* lines 349-353 and 97-118: _update_user_book_status; a failure is logged and
\* swallowed
UpdateUserBookStatus(p) ==
    /\ pc[p] = "update_user_book_status"
    /\ \E ok \in Outcomes :
        userBooks' = IF ok
                     THEN put_user_book_status(userBooks, loc[p].user_id, loc[p].book_id,
                              Get(loc[p].user_specific_fields, "read", FALSE), now)
                     ELSE userBooks
    /\ LET mfields == loc[p].book_metadata_fields
       IN  IF DOMAIN mfields = {} THEN Goto(p, "update_fetch_book", loc[p])
           ELSE IF "author" \in DOMAIN mfields THEN Goto(p, "update_get_current", loc[p])
           ELSE Goto(p, "update_book_metadata", loc[p])
    /\ UNCHANGED <<books, blobs, now, faults, deleted>>

\* a missing book answered as a bad request
update_not_found_as_bad_request == error_response(400, "Bad Request", "Book not found")

\* lines 378-380 and 386-387: the book of the update does not exist
update_not_found == error_response(404, "Not Found", "Book not found")

\* a failed store call answered as if the book did not exist
update_failed_as_missing == error_response(404, "Not Found", "Book not found")

\* lines 381, 391 and 401-403: an exception that reaches the outermost except
\* of update_book_handler
update_failed == error_response(500, "Internal Server Error", "ClientError")

\* lines 358-373: the current book is read and, if the author changes, the
\* cover is looked up; a ClientError of the read is logged and the update
\* goes on, any other exception reaches the outermost except
UpdateGetCurrent(p) ==
    /\ pc[p] = "update_get_current"
    /\ \E ok \in Outcomes, raised \in Raises, cover_url \in CoverUrls \cup {PyNone} :
        LET get_response == GetItem(books, loc[p].book_id)
            current_book == get_response.Item
            mfields == loc[p].book_metadata_fields
        IN  IF raised
            THEN /\ ok
                 /\ cover_url = PyNone
                 /\ Return(p, loc[p], update_failed)
            ELSE IF ok /\ "Item" \in DOMAIN get_response
            THEN Goto(p, "update_book_metadata",
                      Put(loc[p], "book_metadata_fields",
                          update_cover_on_author_change(
                              Get(current_book, "author", ""), mfields["author"].v,
                              Get(current_book, "name", loc[p].book_id), mfields, cover_url)))
            ELSE /\ cover_url = PyNone
                 /\ Goto(p, "update_book_metadata", loc[p])
    /\ UNCHANGED <<books, userBooks, blobs, now, faults, deleted>>

\* lines 393-396: the read status of the response
update_read_status(ufields) == Get(ufields, "read", FALSE)

\* the update without its condition, which DynamoDB runs as an upsert
update_book_metadata_upsert(book_id, metadata_fields) ==
    build_update_params([id |-> book_id], metadata_fields, TRUE, PyNone, "ALL_NEW")

\* lines 138-144: the parameters of _update_book_metadata's update_item
update_book_metadata_params(book_id, metadata_fields) ==
    build_update_params([id |-> book_id], metadata_fields, TRUE,
                        "attribute_exists(id)", "ALL_NEW")

\* lines 375-381 and 121-149: _update_book_metadata, the conditional update
UpdateBookMetadata(p) ==
    /\ pc[p] = "update_book_metadata"
    /\ \E ok \in Outcomes :
        LET r == UpdateItem(books,
                     update_book_metadata_params(loc[p].book_id, loc[p].book_metadata_fields))
        IN  IF ~ok
            THEN /\ books' = books
                 /\ Return(p, loc[p], update_failed)
            ELSE IF r.error = "ConditionalCheckFailedException"
            THEN /\ books' = r.table
                 /\ Return(p, loc[p], update_not_found)
            ELSE /\ books' = r.table
                 /\ Return(p, loc[p], api_response(200, serialize_book_response(r.Attributes,
                              update_read_status(loc[p].user_specific_fields))))
    /\ UNCHANGED <<userBooks, blobs, now, faults, deleted>>

\* lines 383-391: only the read status was written, the book is fetched
UpdateFetchBook(p) ==
    /\ pc[p] = "update_fetch_book"
    /\ \E ok \in Outcomes :
        LET response == GetItem(books, loc[p].book_id)
        IN  IF ~ok
            THEN Return(p, loc[p], update_failed)
            ELSE IF "Item" \notin DOMAIN response
            THEN Return(p, loc[p], update_not_found)
            ELSE Return(p, loc[p], api_response(200, serialize_book_response(response.Item,
                              update_read_status(loc[p].user_specific_fields))))
    /\ UNCHANGED <<books, userBooks, blobs, now, faults, deleted>>

\* ------------------------------------------------------------------------
\* handlers/s3_handlers.py: s3_trigger_handler
\* ------------------------------------------------------------------------
\* tags a blob may carry (the uploader chooses them)
TagSets ==
    { EmptyMap,
      [author |-> "a2", series_name |-> "s1", series_order |-> "7"],
      [series_name |-> "", series_order |-> "500"] }
\* the second file is uploaded with a tag that is no number
OtherTagSets == {[series_order |-> "x"]}

\* S3 event records: the key comes URL-encoded, spaces as +
TriggerEvents ==
    { [bucket |-> BUCKET_NAME, key |-> "books/k1.zip", size |-> 1],
      [bucket |-> BUCKET_NAME, key |-> "books/a0+-+k2.zip", size |-> 1],
      [bucket |-> BUCKET_NAME, key |-> "", size |-> 0] }
ConcurrentTriggerEvents == {[bucket |-> BUCKET_NAME, key |-> "books/k1.zip", size |-> 1]}
TagsFor(record) == IF record.key = "books/k1.zip" THEN TagSets
                   ELSE IF record.key = "" THEN {EmptyMap} ELSE OtherTagSets

\* unquote(key).replace("+", " ") on the keys of the universe
DecodeKey(key) == IF key = "books/a0+-+k2.zip" THEN "books/a0 - k2.zip" ELSE Unquote(key)

\* (bucket_name, s3_key, size)
parse_s3_event(record) ==
    [handler |-> "s3_trigger_handler",
     bucket_name |-> record.bucket, s3_key |-> DecodeKey(record.key), s3_size |-> record.size]

\* s3_key.split("/")[-1]
LastSegment(s3_key) == CHOOSE f \in Filenames : s3_key = BOOKS_PREFIX \o f
\* filename.replace(".zip", "")
RemoveZip(filename) == CHOOSE s \in Stems : filename = s \o ".zip"

extract_book_metadata(filename) ==
    IF \E a \in Tokens, t \in Tokens : filename = a \o " - " \o t
    THEN LET parts == CHOOSE r \in [author : Tokens, name : Tokens] :
                          filename = r.author \o " - " \o r.name
         IN  [author |-> parts.author, name |-> parts.name]
    ELSE [name |-> filename]

\* lines 108-136: the item built from the event and the timestamp
trigger_item(bucket_name, s3_key, s3_size, timestamp) ==
    LET filename == LastSegment(s3_key)
        friendly_name == RemoveZip(filename)
        book_id == RemoveZip(filename)
        item == [id |-> book_id, s3_url |-> S3Url(bucket_name, s3_key),
                 name |-> friendly_name, created |-> timestamp,
                 read |-> FALSE, size |-> s3_size]
        metadata == extract_book_metadata(friendly_name)
    IN  [a \in DOMAIN item \cup DOMAIN metadata |->
            IF a \in DOMAIN metadata THEN metadata[a] ELSE item[a]]

\* lines 146-162: the tags override the metadata taken from the filename
apply_tags(item, tags) ==
    LET strings == {f \in {"author", "series_name"} \cap DOMAIN tags : tags[f] # ""}
        order == {f \in {"series_order"} \cap DOMAIN tags :
                     tags[f] # "" /\ PyInt(JStr(tags[f])).ok}
    IN  [a \in DOMAIN item \cup strings \cup order |->
            IF a \in strings THEN tags[a]
            ELSE IF a \in order THEN PyInt(JStr(tags[a])).v
            ELSE item[a]]

TriggerOk == [statusCode |-> 200, body |-> [message |-> "Successfully processed S3 events"]]

\* a handler without the outermost except: the exception reaches the platform,
\* which reports the invocation to S3 as failed
TriggerRaised == [statusCode |-> 500, body |-> [errorType |-> "Exception"]]

\* lines 196-203: the outermost except
TriggerFailed ==
    [statusCode |-> 200, body |-> [message |-> "Completed with errors", error |-> "Exception"]]

\* A blob lands in the bucket and S3 invokes the handler with the event
\* (lines 100-106: a record without bucket or key is skipped)
\* (the blob of the second slot's event carries no tags)
TriggerBegin(p) ==
    /\ Begin(p)
    /\ \E record \in IF p = "p1" THEN TriggerEvents ELSE ConcurrentTriggerEvents :
       \E tags \in IF p = "p1" THEN TagsFor(record) ELSE {EmptyMap} :
        LET ev == parse_s3_event(record)
        IN  IF Falsy(ev.bucket_name) \/ Falsy(ev.s3_key)
            THEN /\ blobs' = blobs
                 /\ Return(p, ev, TriggerOk)
            ELSE /\ blobs' = Put(blobs, ev.s3_key, [tags |-> tags, size |-> ev.s3_size])
                 /\ Goto(p, "trigger_get_tags", ev)
    /\ UNCHANGED <<books, userBooks, now, faults, deleted>>

\* lines 121-166: the timestamp is taken and the blob's tags are read; a failed
\* read (also of a blob that is gone) leaves the filename metadata
TriggerGetTags(p) ==
    /\ pc[p] = "trigger_get_tags"
    /\ \E ok \in Outcomes, raised \in Raises, t \in ClockValues :
        /\ now' = t
        /\ LET item == trigger_item(loc[p].bucket_name, loc[p].s3_key, loc[p].s3_size, t)
           IN  IF raised
               THEN ok /\ Return(p, loc[p], TriggerFailed)
               ELSE IF ok /\ loc[p].s3_key \in DOMAIN blobs
               THEN Goto(p, "trigger_put_item",
                         Put(loc[p], "item", apply_tags(item, blobs[loc[p].s3_key].tags)))
               ELSE Goto(p, "trigger_put_item", Put(loc[p], "item", item))
    /\ UNCHANGED <<books, userBooks, blobs, faults, deleted>>

\* lines 168-180: the cover, when the lookup finds one
with_cover(item, cover_url) ==
    IF ~Falsy(cover_url) THEN Put(item, "coverImageUrl", cover_url) ELSE item

\* lines 168-203: cover lookup and put_item; every failure is logged and the
\* handler answers 200
TriggerPutItem(p) ==
    /\ pc[p] = "trigger_put_item"
    /\ \E ok \in Outcomes, raised \in Raises, cover_url \in CoverUrls \cup {PyNone} :
        LET item == with_cover(loc[p].item, cover_url)
        IN  IF raised
            THEN /\ ok
                 /\ UNCHANGED <<books, deleted>>
                 /\ Return(p, loc[p], TriggerFailed)
            ELSE IF ok
            THEN /\ books' = PutItem(books, item.id, item)
                 /\ deleted' = deleted \ {item.id}
                 /\ ReturnAfter(p, loc[p], TriggerOk, {item.id})
            ELSE /\ UNCHANGED <<books, deleted>>
                 /\ Return(p, loc[p], TriggerOk)
    /\ UNCHANGED <<userBooks, blobs, now, faults>>

\* ------------------------------------------------------------------------
\* handlers/book_handlers.py: list_handler
\* ------------------------------------------------------------------------
ListEvents ==
    {ApiEvent(c, EmptyMap, Json(EmptyMap)) :
        c \in {UserClaims, AdminClaims, EmptyMap, GroupOnlyClaims}}

\* lines 152-166
ListBegin(p) ==
    /\ Begin(p)
    /\ p = "p1"
    /\ \E event \in ListEvents :
        LET user_id == get_user_id(event)
            locals == [handler |-> "list_handler", claims |-> event.claims,
                       user_id |-> user_id, user_is_admin |-> is_admin(event),
                       items |-> <<>>, start |-> PyNone]
        IN  IF Falsy(user_id)
            THEN Return(p, locals, error_response(401, "Unauthorized", "User not authenticated"))
            ELSE Goto(p, "list_scan", locals)
    /\ UNCHANGED <<books, userBooks, blobs, now, faults, deleted>>

\* lines 168-175: one page of the scan of Books; the loop goes on while the
\* response carries LastEvaluatedKey
ListScan(p) ==
    /\ pc[p] = "list_scan"
    /\ \E ok \in Outcomes, n \in PageSizes(Remaining(books, BooksOrder, loc[p].start)) :
        LET response == ScanPage(books, BooksOrder, loc[p].start, n)
            items == loc[p].items \o response.Items
        IN  IF ~ok
            THEN Return(p, loc[p], error_response(500, "Failed to list books", "ClientError"))
            ELSE IF "LastEvaluatedKey" \in DOMAIN response
            THEN Goto(p, "list_scan", [loc[p] EXCEPT !.items = items,
                                                     !.start = response.LastEvaluatedKey])
            ELSE Goto(p, "list_query", [loc[p] EXCEPT !.items = items])
    /\ UNCHANGED <<books, userBooks, blobs, now, faults, deleted>>

\* lines 50-71: _get_user_read_statuses; bookId -> read of the user's rows, and
\* {} when the query fails
get_user_read_statuses(table, user_id, ok) ==
    IF ok
    THEN LET rows == Query(table, user_id).Items
         IN  [b \in {rows[i].bookId : i \in 1..Len(rows)} |->
                 LET i == CHOOSE j \in 1..Len(rows) : rows[j].bookId = b
                 IN  Get(rows[i], "read", FALSE)]
    ELSE EmptyMap

\* lines 182-187: the books of the response, in scan order
list_books(items, user_read_status) ==
    [i \in 1..Len(items) |->
        serialize_book_response(items[i],
            Get(user_read_status, Get(items[i], "id", PyNone), FALSE))]

\* list.sort(key=created, reverse=True): stable, descending
RECURSIVE SortByCreatedDesc(_)
\* a sort that leaves the books in scan order
InsertAtEnd(sorted, x) == Append(sorted, x)

InsertByCreatedDesc(sorted, x) ==
    LET before == {i \in 1..Len(sorted) : sorted[i].created >= x.created}
        k == Cardinality(before)
    IN  SubSeq(sorted, 1, k) \o <<x>> \o SubSeq(sorted, k + 1, Len(sorted))
SortByCreatedDesc(seq) ==
    IF seq = <<>> THEN <<>>
    ELSE InsertByCreatedDesc(SortByCreatedDesc(SubSeq(seq, 1, Len(seq) - 1)), seq[Len(seq)])

\* lines 179-195
ListQuery(p) ==
    /\ pc[p] = "list_query"
    /\ \E ok \in Outcomes :
        LET user_read_status == get_user_read_statuses(userBooks, loc[p].user_id, ok)
            sorted == SortByCreatedDesc(list_books(loc[p].items, user_read_status))
        IN  Return(p, loc[p], api_response(200, [books |-> sorted,
                                                  isAdmin |-> loc[p].user_is_admin]))
    /\ UNCHANGED <<books, userBooks, blobs, now, faults, deleted>>

\* ------------------------------------------------------------------------
\* handlers/book_handlers.py: get_book_handler
\* ------------------------------------------------------------------------
GetEvents ==
    {ApiEvent(UserClaims, prm, Json(EmptyMap)) : prm \in IdParams}
    \cup {ApiEvent(AdminClaims, [id |-> "k1"], Json(EmptyMap))}
    \cup {ApiEvent(c, [id |-> "k1"], Json(EmptyMap)) : c \in {EmptyMap, GroupOnlyClaims}}
    \cup {ApiEvent(c, EmptyMap, Json(EmptyMap)) : c \in {UserClaims, EmptyMap}}

\* lines 211-222
GetBegin(p) ==
    /\ Begin(p)
    /\ p = "p1"
    /\ \E event \in GetEvents :
        LET param == get_path_param(event, "id")
            user_id == get_user_id(event)
            locals == [handler |-> "get_book_handler", claims |-> event.claims,
                       user_id |-> user_id, book_id |-> param.value]
        IN  IF IsError(param.error) THEN Return(p, locals, param.error)
            ELSE IF Falsy(user_id)
            THEN Return(p, locals, error_response(401, "Unauthorized", "User not authenticated"))
            ELSE Goto(p, "get_book", locals)
    /\ UNCHANGED <<books, userBooks, blobs, now, faults, deleted>>

\* lines 224-235
GetBook(p) ==
    /\ pc[p] = "get_book"
    /\ \E ok \in Outcomes :
        LET response == GetItem(books, loc[p].book_id)
        IN  IF ~ok
            THEN Return(p, loc[p], error_response(500, "Database Error", "ClientError"))
            ELSE IF "Item" \notin DOMAIN response
            THEN Return(p, loc[p], error_response(404, "Not Found", "Book not found"))
            ELSE Goto(p, "get_read_status", Put(loc[p], "book_item", response.Item))
    /\ UNCHANGED <<books, userBooks, blobs, now, faults, deleted>>

\* lines 74-94: _get_user_read_status; False when there is no row or the read fails
get_user_read_status(table, user_id, book_id, ok) ==
    LET user_book_response == GetItem(table, <<user_id, book_id>>)
    IN  IF ok /\ "Item" \in DOMAIN user_book_response
        THEN Get(user_book_response.Item, "read", FALSE)
        ELSE FALSE

\* generate_presigned_url("get_object"): signed locally, no store call
PresignedGet(bucket, s3_key) == "https://" \o bucket \o "/" \o s3_key \o "?get"

\* lines 237-270; _get_user_read_status passes over a ClientError only, any
\* other exception reaches the outermost except
GetReadStatus(p) ==
    /\ pc[p] = "get_read_status"
    /\ \E ok \in Outcomes, raised \in Raises :
        LET read_status == get_user_read_status(userBooks, loc[p].user_id, loc[p].book_id, ok)
            book_item == loc[p].book_item
            s3_url == Get(book_item, "s3_url", PyNone)
            parsed_url == ParseS3Url(s3_url)
            book_response == serialize_book_response(book_item, read_status)
        IN  IF raised
            THEN ok /\ Return(p, loc[p], error_response(500, "Internal Server Error",
                                                        "Exception"))
            ELSE IF Falsy(s3_url)
            THEN Return(p, loc[p], error_response(500, "Invalid Data", "Book record missing S3 URL"))
            ELSE Return(p, loc[p], api_response(200,
                     Put(Put(book_response, "downloadUrl",
                             PresignedGet(parsed_url.bucket, parsed_url.key)),
                         "expiresIn", URL_EXPIRY_SECONDS)))
    /\ UNCHANGED <<books, userBooks, blobs, now, faults, deleted>>

\* ------------------------------------------------------------------------
\* handlers/admin_handlers.py: delete_book_handler
\* ------------------------------------------------------------------------
DeleteEvents ==
    {ApiEvent(AdminClaims, prm, Json(EmptyMap)) : prm \in IdParams \cup {EmptyMap}}
    \cup {ApiEvent(c, [id |-> "k1"], Json(EmptyMap)) :
            c \in {UserClaims, EmptyMap, GroupOnlyClaims}}
    \cup {ApiEvent(UserClaims, EmptyMap, Json(EmptyMap))}
ConcurrentDeleteEvents == {ApiEvent(AdminClaims, [id |-> "k1"], Json(EmptyMap))}

\* lines 234-251
DeleteBegin(p) ==
    /\ Begin(p)
    /\ \E event \in IF p = "p1" THEN DeleteEvents ELSE ConcurrentDeleteEvents :
        LET user_id == get_user_id(event)
            param == get_path_param(event, "id")
            call == [handler |-> "delete_book_handler", claims |-> event.claims,
                     user_id |-> user_id]
        IN  IF Falsy(user_id)
            THEN Return(p, call, error_response(401, "Unauthorized", "User not authenticated"))
            ELSE IF ~is_admin(event)
            THEN Return(p, call, error_response(403, "Forbidden",
                                                "Only administrators can delete books"))
            ELSE IF IsError(param.error) THEN Return(p, call, param.error)
            ELSE Goto(p, "delete_get_book", Put(call, "book_id", param.value))
    /\ UNCHANGED <<books, userBooks, blobs, now, faults, deleted>>

\* a delete that reports success for a book that is not there
delete_not_found_as_deleted ==
    api_response(200, [message |-> "Book deleted successfully"])

\* lines 258-262 and 297-301: the book of the delete does not exist
delete_not_found == error_response(404, "Not Found", "Book not found")

\* lines 256-279
DeleteGetBook(p) ==
    /\ pc[p] = "delete_get_book"
    /\ \E ok \in Outcomes :
        LET response == GetItem(books, loc[p].book_id)
            s3_url == Get(response.Item, "s3_url", PyNone)
        IN  IF ~ok
            THEN Return(p, loc[p], error_response(500, "Database Error", "ClientError"))
            ELSE IF "Item" \notin DOMAIN response
            THEN Return(p, loc[p], delete_not_found)
            ELSE IF ~Falsy(s3_url)
            THEN Goto(p, "delete_s3_object", Put(loc[p], "s3_url", s3_url))
            ELSE Goto(p, "cleanup_user_books", loc[p])
    /\ UNCHANGED <<books, userBooks, blobs, now, faults, deleted>>

\* an exception that leaves the handler instead of an envelope
delete_raises == [errorType |-> "Exception"]

\* lines 304-306: the outermost except of delete_book_handler
delete_failed == error_response(500, "Internal Server Error", "Exception")

\* lines 33-59 and 272-277: _delete_s3_object; a ClientError is logged and
\* passed over, any other exception reaches the outermost except
DeleteS3Object(p) ==
    /\ pc[p] = "delete_s3_object"
    /\ \E ok \in Outcomes, raised \in Raises :
        IF raised
        THEN /\ ok
             /\ blobs' = blobs
             /\ Return(p, loc[p], delete_failed)
        ELSE /\ blobs' = IF ok THEN Drop(blobs, ParseS3Url(loc[p].s3_url).key) ELSE blobs
             /\ Goto(p, "cleanup_user_books", loc[p])
    /\ UNCHANGED <<books, userBooks, now, faults, deleted>>

\* the items of one scan page that pass FilterExpression="bookId = :bid"
FilterByBookId(items, book_id) == SelectSeq(items, LAMBDA item : item.bookId = book_id)

\* lines 76-82 and 282-286: the scan of _cleanup_user_books, one request and
\* so one page; a ClientError is logged and passed over, any other exception
\* reaches the outermost except
CleanupUserBooks(p) ==
    /\ pc[p] = "cleanup_user_books"
    /\ \E ok \in Outcomes, raised \in Raises,
          n \in PageSizes(Remaining(userBooks, UserBooksOrder, PyNone)) :
        LET scan_response == ScanPage(userBooks, UserBooksOrder, PyNone, n)
            user_book_items == FilterByBookId(scan_response.Items, loc[p].book_id)
        IN  IF raised
            THEN ok /\ Return(p, loc[p], delete_failed)
            ELSE IF ok /\ user_book_items # <<>>
            THEN Goto(p, "cleanup_delete_item", Put(loc[p], "user_book_items", user_book_items))
            ELSE Goto(p, "delete_book_record", loc[p])
    /\ UNCHANGED <<books, userBooks, blobs, now, faults, deleted>>

\* lines 85-88: one delete_item of the loop over the scanned rows; a
\* ClientError ends the loop, any other exception reaches the outermost except
CleanupDeleteItem(p) ==
    /\ pc[p] = "cleanup_delete_item"
    /\ \E ok \in Outcomes, raised \in Raises :
        LET item == Head(loc[p].user_book_items)
            rest == Tail(loc[p].user_book_items)
        IN  IF raised
            THEN /\ ok
                 /\ userBooks' = userBooks
                 /\ Return(p, Drop(loc[p], "user_book_items"), delete_failed)
            ELSE /\ userBooks' = IF ok THEN DeleteItem(userBooks, <<item.userId, item.bookId>>)
                                ELSE userBooks
                 /\ IF ok /\ rest # <<>>
                    THEN Goto(p, "cleanup_delete_item", [loc[p] EXCEPT !.user_book_items = rest])
                    ELSE Goto(p, "delete_book_record", Drop(loc[p], "user_book_items"))
    /\ UNCHANGED <<books, blobs, now, faults, deleted>>

\* lines 103-116 and 288-306: _delete_book_record
DeleteBookRecord(p) ==
    /\ pc[p] = "delete_book_record"
    /\ \E ok \in Outcomes :
        LET result == ConditionalDelete(books, loc[p].book_id)
        IN  IF ~ok
            THEN /\ UNCHANGED <<books, deleted>>
                 /\ Return(p, loc[p], error_response(500, "Internal Server Error", "ClientError"))
            ELSE IF result.error = "ConditionalCheckFailedException"
            THEN /\ UNCHANGED <<books, deleted>>
                 /\ Return(p, loc[p], delete_not_found)
            ELSE /\ books' = result.table
                 /\ deleted' = deleted \cup {loc[p].book_id}
                 /\ Return(p, loc[p], api_response(200,
                        [message |-> "Book deleted successfully", bookId |-> loc[p].book_id]))
    /\ UNCHANGED <<userBooks, blobs, now, faults>>

\* ------------------------------------------------------------------------
\* handlers/s3_handlers.py: set_upload_metadata_handler
\* ------------------------------------------------------------------------
SetMetadataBodies ==
    { [bookId |-> JStr("k1"), author |-> JStr(" a1 ")],
      [bookId |-> JStr("k1"), series_name |-> JStr("s1"), series_order |-> JStr("7")],
      [bookId |-> JStr("a0 - k2"), series_order |-> JInt(1)],
      [bookId |-> JStr("k1"), author |-> JStr("  ")],
      [bookId |-> JStr("k1"), series_order |-> JInt(101)],
      [bookId |-> JStr("k1"), series_name |-> JInt(1)],
      [bookId |-> JStr("k1")],
      [bookId |-> JStr("a0 - k2"), series_order |-> JNull],
      [author |-> JStr("a1")] }

SetMetadataEvents ==
    {ApiEvent(AdminClaims, EmptyMap, Json(b)) : b \in SetMetadataBodies}
    \cup {ApiEvent(AdminClaims, EmptyMap, NotJson)}
    \cup {ApiEvent(c, EmptyMap, Json([bookId |-> JStr("k1"), series_order |-> JInt(2)])) :
            c \in {UserClaims, EmptyMap, GroupOnlyClaims}}
    \cup {ApiEvent(UserClaims, EmptyMap, NotJson),
          ApiEvent(UserClaims, EmptyMap, Json([author |-> JStr("a1")]))}

\* body.get(field, "").strip()
StrippedField(body, field) == Strip(Get(body, field, JStr("")).v)

\* lines 261-272
set_metadata_fields(body) ==
    LET author == StrippedField(body, "author")
        series_name == StrippedField(body, "series_name")
        series_order == Get(body, "series_order", JNull)
        present == {f \in {"author", "series_name", "series_order"} :
                      \/ f = "author" /\ ~Falsy(author)
                      \/ f = "series_name" /\ ~Falsy(series_name)
                      \/ f = "series_order" /\ series_order # JNull}
    IN  [f \in present |->
            IF f = "author" THEN JStr(author)
            ELSE IF f = "series_name" THEN JStr(series_name)
            ELSE JInt(PyInt(series_order).v)]

\* the first failing check of lines 249-259, or NoError
set_metadata_validate(body) ==
    LET e1 == validate_string_field(body, "author", 500, FALSE)
        e2 == validate_string_field(body, "series_name", 500, FALSE)
    IN  IF IsError(e1) THEN e1
        ELSE IF IsError(e2) THEN e2
        ELSE validate_series_order(body)

\* lines 223-278: the handler up to its first store call
SetMetadataBegin(p) ==
    /\ Begin(p)
    /\ p = "p1"
    /\ \E event \in SetMetadataEvents :
        LET parsed == parse_json_body(event)
            body == parsed.value
            book_id == Get(body, "bookId", JStr(PyNone)).v
            invalid == set_metadata_validate(body)
            call == [handler |-> "set_upload_metadata_handler", claims |-> event.claims,
                     event |-> event]
            locals == [handler |-> "set_upload_metadata_handler", claims |-> event.claims,
                       book_id |-> book_id, metadata_fields |-> set_metadata_fields(body)]
        IN  IF ~is_admin(event)
            THEN Return(p, call, error_response(403, "Forbidden",
                                                "Only administrators can set upload metadata"))
            ELSE IF IsError(parsed.error) THEN Return(p, call, parsed.error)
            ELSE IF Falsy(book_id)
            THEN Return(p, call, error_response(400, "Bad Request", "bookId is required"))
            ELSE IF IsError(invalid) THEN Return(p, call, invalid)
            ELSE IF DOMAIN locals.metadata_fields = {}
            THEN Return(p, call, api_response(200, [message |-> "No metadata to update"]))
            ELSE Goto(p, "set_metadata_get_current", locals)
    /\ UNCHANGED <<books, userBooks, blobs, now, faults, deleted>>

\* lines 281-299
SetMetadataGetCurrent(p) ==
    /\ pc[p] = "set_metadata_get_current"
    /\ \E ok \in Outcomes, cover_url \in CoverUrls \cup {PyNone} :
        LET get_response == GetItem(books, loc[p].book_id)
            current_book == get_response.Item
            mfields == loc[p].metadata_fields
        IN  IF ~ok
            THEN /\ cover_url = PyNone
                 /\ Return(p, loc[p], error_response(500, "Database Error", "ClientError"))
            ELSE IF "Item" \notin DOMAIN get_response
            THEN /\ cover_url = PyNone
                 /\ Return(p, loc[p], error_response(404, "Not Found", "Book not found"))
            ELSE IF "author" \in DOMAIN mfields
            THEN Goto(p, "set_metadata_update",
                      Put(loc[p], "metadata_fields",
                          update_cover_on_author_change(
                              Get(current_book, "author", ""), mfields["author"].v,
                              Get(current_book, "name", loc[p].book_id), mfields, cover_url)))
            ELSE /\ cover_url = PyNone
                 /\ Goto(p, "set_metadata_update", loc[p])
    /\ UNCHANGED <<books, userBooks, blobs, now, faults, deleted>>

\* lines 302-308: the parameters of the handler's update_item
set_metadata_params(book_id, metadata_fields) ==
    build_update_params([id |-> book_id], metadata_fields, TRUE,
                        "attribute_exists(id)", "NONE")

\* a JSON value as the response carries it
PlainValue(x) == IF x = JNull THEN PyNone ELSE x.v

\* lines 315-319
set_metadata_response(book_id, metadata_fields) ==
    [a \in {"message", "bookId"} \cup DOMAIN metadata_fields |->
        IF a \in DOMAIN metadata_fields THEN PlainValue(metadata_fields[a])
        ELSE IF a = "message" THEN "Metadata updated successfully"
        ELSE book_id]

\* lines 310-333: the conditional update
SetMetadataUpdate(p) ==
    /\ pc[p] = "set_metadata_update"
    /\ \E ok \in Outcomes :
        LET r == UpdateItem(books, set_metadata_params(loc[p].book_id, loc[p].metadata_fields))
        IN  IF ~ok
            THEN /\ books' = books
                 /\ Return(p, loc[p], error_response(500, "Internal Server Error", "ClientError"))
            ELSE IF r.error = "ConditionalCheckFailedException"
            THEN /\ books' = r.table
                 /\ Return(p, loc[p], error_response(404, "Not Found", "Book not found"))
            ELSE /\ books' = r.table
                 /\ Return(p, loc[p], api_response(200,
                        set_metadata_response(loc[p].book_id, loc[p].metadata_fields)))
    /\ UNCHANGED <<userBooks, blobs, now, faults, deleted>>

\* ------------------------------------------------------------------------
\* handlers/admin_handlers.py: upload_handler
\* ------------------------------------------------------------------------
UploadBodies ==
    { [filename |-> JStr("k1.zip")],
      [filename |-> JStr("../K1.ZIP"), author |-> JStr(" a1 "), fileSize |-> JInt(1)],
      [filename |-> JStr("k1.txt")],
      [filename |-> JStr("k1.zip"), author |-> JInt(1)],
      [filename |-> JStr("k1.zip"), fileSize |-> JInt(MAX_FILE_SIZE_BYTES + 1)],
      [filename |-> JStr("k1.zip"), fileSize |-> JInt(MAX_FILE_SIZE_BYTES)],
      [filename |-> JStr("k1.zip"), fileSize |-> JInt(0)],
      [filename |-> JStr("k1.zip"), fileSize |-> JStr("7")],
      [filename |-> JStr("k1.zip"), author |-> JStr("a1"), series_name |-> JStr("s1"),
       series_order |-> JInt(1)],
      [author |-> JStr("a1")] }

UploadEvents ==
    {ApiEvent(AdminClaims, EmptyMap, Json(b)) : b \in UploadBodies}
    \cup {ApiEvent(AdminClaims, EmptyMap, NotJson)}
    \cup {ApiEvent(c, EmptyMap, Json([filename |-> JStr("k1.zip")])) :
            c \in {UserClaims, EmptyMap, GroupOnlyClaims}}
    \cup {ApiEvent(UserClaims, EmptyMap, NotJson),
          ApiEvent(UserClaims, EmptyMap, Json([filename |-> JStr("k1.txt")])),
          ApiEvent(UserClaims, EmptyMap,
                   Json([filename |-> JStr("k1.zip"),
                         fileSize |-> JInt(MAX_FILE_SIZE_BYTES + 1)]))}

\* filename.lower().endswith(".zip") on the names of the universe
LowerEndsWithZip(filename) == filename \in {"k1.zip", "../K1.ZIP"}
\* os.path.basename on the names of the universe
Basename(filename) == IF filename = "../K1.ZIP" THEN "K1.ZIP" ELSE filename

\* generate_presigned_url("put_object"): signed locally, no store call
PresignedPut(bucket, s3_key) == "https://" \o bucket \o "/" \o s3_key \o "?put"

\* a limit that already rejects a file of exactly the maximum size
file_too_large_at_limit(file_size) == file_size >= MAX_FILE_SIZE_BYTES

\* line 173: the size check
file_too_large(file_size) == file_size > MAX_FILE_SIZE_BYTES

\* lines 188-192: the Params of the presigned put_object request
upload_params(s3_key) ==
    [Bucket |-> BUCKET_NAME, Key |-> s3_key, ContentType |-> "application/zip"]

\* lines 186-211
upload_response(filename, author) ==
    LET s3_key == BOOKS_PREFIX \o filename
        response_data == [uploadUrl |-> PresignedPut(BUCKET_NAME, s3_key),
                          method |-> "PUT",
                          filename |-> filename,
                          s3Key |-> s3_key,
                          expiresIn |-> URL_EXPIRY_SECONDS]
    IN  api_response(200, IF ~Falsy(author) THEN Put(response_data, "author", author)
                          ELSE response_data)

\* lines 130-215: the whole handler; it calls no store
UploadHandler(p) ==
    /\ Begin(p)
    /\ p = "p1"
    /\ \E event \in UploadEvents :
        LET parsed == parse_json_body(event)
            body == parsed.value
            filename == Get(body, "filename", JStr(PyNone)).v
            invalid == validate_string_field(body, "author", 500, FALSE)
            file_size == Get(body, "fileSize", JInt(0))
            call == [handler |-> "upload_handler", claims |-> event.claims, event |-> event]
        IN  IF ~is_admin(event)
            THEN Return(p, call, error_response(403, "Forbidden",
                                                "Only administrators can upload books"))
            ELSE IF IsError(parsed.error) THEN Return(p, call, parsed.error)
            ELSE IF Falsy(filename)
            THEN Return(p, call, error_response(400, "Bad Request", "filename is required"))
            ELSE IF ~LowerEndsWithZip(filename)
            THEN Return(p, call, error_response(400, "Bad Request", "Only .zip files are allowed"))
            ELSE IF IsError(invalid) THEN Return(p, call, invalid)
            ELSE IF file_size.k # "int"
            THEN Return(p, call, error_response(500, "Internal Server Error", "TypeError"))
            ELSE IF file_too_large(file_size.v)
            THEN Return(p, call, error_response(400, "Bad Request",
                                                "File size exceeds maximum limit of 5GB"))
            ELSE Return(p, Put(call, "params",
                               upload_params(BOOKS_PREFIX \o Basename(filename))),
                        upload_response(Basename(filename), StrippedField(body, "author")))
    /\ UNCHANGED <<books, userBooks, blobs, now, faults, deleted>>

\* The library the behaviours start from: "books/k1.zip" was uploaded without
\* tags and ingested at time 0, no cover was found, nobody has marked it
InitialKey == "books/k1.zip"
InitialItem == trigger_item(BUCKET_NAME, InitialKey, 1, 0)

Init ==
    /\ books = PutItem(EmptyMap, InitialItem.id, InitialItem)
    /\ userBooks = EmptyMap
    /\ blobs = Put(EmptyMap, InitialKey, [tags |-> EmptyMap, size |-> 1])
    /\ now = 0
    /\ calls = 0
    /\ faults = FALSE
    /\ pc = [p \in Procs |-> "idle"]
    /\ loc = [p \in Procs |-> EmptyMap]
    /\ tomb = [p \in Procs |-> {}]
    /\ deleted = {}
    /\ last = NoLast

Next ==
    \E p \in Procs :
        \/ UpdateBegin(p)
        \/ UpdateUserBookStatus(p)
        \/ UpdateGetCurrent(p)
        \/ UpdateBookMetadata(p)
        \/ UpdateFetchBook(p)
        \/ TriggerBegin(p)
        \/ TriggerGetTags(p)
        \/ TriggerPutItem(p)
        \/ ListBegin(p)
        \/ ListScan(p)
        \/ ListQuery(p)
        \/ GetBegin(p)
        \/ GetBook(p)
        \/ GetReadStatus(p)
        \/ DeleteBegin(p)
        \/ DeleteGetBook(p)
        \/ DeleteS3Object(p)
        \/ CleanupUserBooks(p)
        \/ CleanupDeleteItem(p)
        \/ DeleteBookRecord(p)
        \/ SetMetadataBegin(p)
        \/ SetMetadataGetCurrent(p)
        \/ SetMetadataUpdate(p)
        \/ UploadHandler(p)

Spec == Init /\ [][Next]_vars

\* The same library and handlers with store calls that may fail
InitFaults ==
    /\ books = PutItem(EmptyMap, InitialItem.id, InitialItem)
    /\ userBooks = EmptyMap
    /\ blobs = Put(EmptyMap, InitialKey, [tags |-> EmptyMap, size |-> 1])
    /\ now = 0
    /\ calls = 0
    /\ faults = TRUE
    /\ pc = [p \in Procs |-> "idle"]
    /\ loc = [p \in Procs |-> EmptyMap]
    /\ tomb = [p \in Procs |-> {}]
    /\ deleted = {}
    /\ last = NoLast

SpecFaults == InitFaults /\ [][Next]_vars

\* ------------------------------------------------------------------------
\* build_update_expression on its own: the fields and the flag are drawn at
\* the start, one step calls the function and records what it returned
\* ------------------------------------------------------------------------
ExprFieldNames == {"author", "series_name", "series_order", "coverImageUrl"}
ExprValues == {JNull, JStr(""), JStr("a1"), JInt(1)}
ExprFields == UNION {[names -> ExprValues] : names \in SUBSET ExprFieldNames}

InitExpr ==
    /\ books = EmptyMap
    /\ userBooks = EmptyMap
    /\ blobs = EmptyMap
    /\ now = 0
    /\ calls = 0
    /\ faults = FALSE
    /\ pc = [p \in Procs |-> "idle"]
    /\ \E fields \in ExprFields, allow_remove \in BOOLEAN :
          loc = [p \in Procs |-> IF p = "p1"
                                 THEN [handler |-> "build_update_expression",
                                       fields |-> fields, allow_remove |-> allow_remove]
                                 ELSE EmptyMap]
    /\ tomb = [p \in Procs |-> {}]
    /\ deleted = {}
    /\ last = NoLast

BuildUpdateExpression ==
    /\ last = NoLast
    /\ last' = [handler |-> "build_update_expression", call |-> loc["p1"],
                response |-> build_update_expression(loc["p1"].fields,
                                                     loc["p1"].allow_remove),
                tomb |-> {}]
    /\ UNCHANGED <<books, userBooks, blobs, now, calls, faults, pc, loc, tomb, deleted>>

NextExpr == BuildUpdateExpression

SpecExpr == InitExpr /\ [][NextExpr]_vars

\* ------------------------------------------------------------------------
\* Properties
\* ------------------------------------------------------------------------
\* the caller's UserBooks row for a book: its read flag, FALSE without a row
RowRead(user_id, book_id) ==
    Get(Get(userBooks, <<user_id, book_id>>, EmptyMap), "read", FALSE)

\* C1: in every reachable state the bookId of every UserBooks row is the id of
\* a Books record, also after an update that carries `read` for an id that has
\* no Books record.
C1_RowsReferToBooks ==
    \A k \in DOMAIN userBooks : userBooks[k].bookId \in DOMAIN books

\* C2: when a delete has just returned 200 for a book, no UserBooks row has
\* that bookId, whatever updates that write `read` ran concurrently.
C2_DeleteLeavesNoRow ==
    (last.handler = "delete_book_handler" /\ last.response.statusCode = 200)
        => \A k \in DOMAIN userBooks : userBooks[k].bookId # last.call.book_id

\* C3: for a book whose delete returned 200 before the invocation began and
\* that was not ingested again before it returned: get answers 404, list
\* answers without the book, and a repeated delete answers 404.
C3_DeletedStaysGone ==
    /\ (/\ last.handler = "get_book_handler"
        /\ ~Falsy(last.call.user_id)
        /\ last.call.book_id \in last.tomb)
           => last.response.statusCode = 404
    /\ (last.handler = "list_handler" /\ last.response.statusCode = 200)
           => \A i \in 1..Len(last.response.body.books) :
                  last.response.body.books[i].id \notin last.tomb
    /\ (/\ last.handler = "delete_book_handler"
        /\ "book_id" \in DOMAIN last.call
        /\ last.call.book_id \in last.tomb)
           => last.response.statusCode = 404

\* C3's case: a list that answers with a book while another book is deleted
C3_Witness ==
    /\ last.handler = "list_handler"
    /\ last.response.statusCode = 200
    /\ last.tomb # {}
    /\ Len(last.response.body.books) > 0

\* C4: no step of update_book_handler or set_upload_metadata_handler adds a
\* Books record; when the record is absent at the conditional write, Books is
\* unchanged and the handler returns 404 in that very step, without a retry.
C4_NoUpsert ==
    [][\A p \in Procs :
        (/\ pc'[p] # pc[p]
         /\ {pc[p], pc'[p]} \cap {"update_user_book_status", "update_get_current",
                                   "update_book_metadata", "update_fetch_book",
                                   "set_metadata_get_current", "set_metadata_update"} # {})
        => /\ DOMAIN books' \subseteq DOMAIN books
           /\ (/\ pc[p] \in {"update_book_metadata", "set_metadata_update"}
               /\ loc[p].book_id \notin DOMAIN books)
              => /\ books' = books
                 /\ pc'[p] = "idle"
                 /\ last'.response.statusCode = 404]_vars

\* C4's case: an update of metadata has met an absent record and answered 404
C4_Witness ==
    /\ last.handler = "update_book_handler"
    /\ last.response.statusCode = 404
    /\ DOMAIN last.call.book_metadata_fields # {}
    /\ last.call.book_id \notin DOMAIN books

C6_FieldsSplit ==
    [][\A p \in Procs :
        (/\ pc'[p] # pc[p]
         /\ pc[p] \in {"update_user_book_status", "update_get_current",
                       "update_book_metadata", "update_fetch_book"})
        => /\ DOMAIN loc[p].book_metadata_fields = {} => books' = books
           /\ DOMAIN loc[p].user_specific_fields = {} => userBooks' = userBooks]_vars

\* C6's case: an update of metadata alone has answered 200 for a book the
\* caller has a row for
C6_Witness ==
    /\ last.handler = "update_book_handler"
    /\ last.response.statusCode = 200
    /\ DOMAIN last.call.user_specific_fields = {}
    /\ <<last.call.user_id, last.call.book_id>> \in DOMAIN userBooks

\* C7: the series_order of every Books record that has one is an integer from
\* MIN_SERIES_ORDER to MAX_SERIES_ORDER, whichever handler wrote it.
C7_SeriesOrderInRange ==
    \A b \in DOMAIN books :
        "series_order" \in DOMAIN books[b]
            => books[b].series_order \in MIN_SERIES_ORDER..MAX_SERIES_ORDER

\* C8: no step changes the `created` of a Books record that stays in the
\* table, also not a second blob-creation event for its key.
C8_CreatedNeverChanges ==
    [][\A b \in DOMAIN books \cap DOMAIN books' :
          books'[b].created = books[b].created]_vars

\* C9: when the trigger has just created again an id that was deleted before
\* it began, no user has a UserBooks row with read = true for that id.
C9_RecreatedCarriesNoHistory ==
    (/\ last.handler = "s3_trigger_handler"
     /\ "item" \in DOMAIN last.call
     /\ last.call.item.id \in last.tomb
     /\ last.call.item.id \in DOMAIN books)
        => \A u \in Users : ~RowRead(u, last.call.item.id)

\* C10: list, get, update, delete, upload and set-upload-metadata answer 401
\* to an event whose claims have no `sub`, whatever else the event holds.
C10_NoSubIs401 ==
    (/\ last.handler \in {"list_handler", "get_book_handler", "update_book_handler",
                          "delete_book_handler", "upload_handler",
                          "set_upload_metadata_handler"}
     /\ "sub" \notin DOMAIN last.call.claims)
        => last.response.statusCode = 401

\* C11: delete_book_handler, upload_handler and set_upload_metadata_handler
\* answer 403 to a caller who has a `sub` and whose groups lack "admins",
\* whatever the path, the body, the filename or the file size are, and the
\* step that answers leaves Books, UserBooks and the bucket unchanged.
C11_NonAdminIs403 ==
    [][(/\ last'.handler \in {"delete_book_handler", "upload_handler",
                              "set_upload_metadata_handler"}
        /\ "sub" \in DOMAIN last'.call.claims
        /\ "admins" \notin get_user_groups([claims |-> last'.call.claims]))
       => /\ last'.response.statusCode = 403
          /\ UNCHANGED <<books, userBooks, blobs>>]_vars

\* C11's case: a non-admin has sent upload_handler a body that is no JSON
C11_Witness ==
    /\ last.handler = "upload_handler"
    /\ last.call.claims = UserClaims
    /\ ~last.call.event.body.json
    /\ last.response.statusCode = 403

\* C12: s3_trigger_handler answers statusCode 200 to every event, also when
\* the read of the tags, the cover lookup or the put into Books fails and when
\* a call raises any other exception.
C12_TriggerAlways200 ==
    last.handler = "s3_trigger_handler" => last.response.statusCode = 200

\* C12's case: the put into Books has failed, the book is not in the table,
\* and the handler has answered
C12_Witness ==
    /\ last.handler = "s3_trigger_handler"
    /\ "item" \in DOMAIN last.call
    /\ last.call.item.id \notin DOMAIN books
    /\ last.response = TriggerOk

\* C13: in delete_book_handler a failure of the blob delete or of the
\* UserBooks cleanup does not end the invocation: the handler goes on towards
\* the conditional delete of the Books record, and a conditional delete that
\* removes the record is answered with 200.
C13_FailureDoesNotBlockDelete ==
    [][\A p \in Procs :
        /\ (/\ pc[p] \in {"delete_s3_object", "cleanup_user_books", "cleanup_delete_item"}
            /\ pc'[p] # pc[p])
           => pc'[p] \in {"cleanup_user_books", "cleanup_delete_item", "delete_book_record"}
        /\ (/\ pc[p] = "delete_book_record"
            /\ loc[p].book_id \in DOMAIN books
            /\ loc[p].book_id \notin DOMAIN books')
           => last'.response.statusCode = 200]_vars

\* C14: in update_book_handler the write of the UserBooks row never ends the
\* invocation, failed or not: the handler goes on to the Books step. A Books
\* step on an existing book answers 200, or, when the store call fails, 500
\* and leaves the record as it was; it never answers anything else.
C14_RowFailureSwallowedBookFailureFatal ==
    [][\A p \in Procs :
        /\ (/\ pc[p] = "update_user_book_status"
            /\ pc'[p] # pc[p])
           => pc'[p] \in {"update_get_current", "update_book_metadata", "update_fetch_book"}
        /\ (/\ pc[p] \in {"update_book_metadata", "update_fetch_book"}
            /\ pc'[p] = "idle"
            /\ loc[p].book_id \in DOMAIN books
            /\ last'.response.statusCode # 200)
           => /\ last'.response.statusCode = 500
              /\ books' = books]_vars

\* an update that carried `read` and a metadata field is answered 200 for an
\* existing book although the UserBooks row was not written
C14_Witness ==
    /\ last.handler = "update_book_handler"
    /\ "user_specific_fields" \in DOMAIN last.call
    /\ "read" \in DOMAIN last.call.user_specific_fields
    /\ DOMAIN last.call.book_metadata_fields # {}
    /\ last.response.statusCode = 200
    /\ <<last.call.user_id, last.call.book_id>> \notin DOMAIN userBooks

\* the metadata fields an update_book_handler or set_upload_metadata_handler
\* invocation holds in its locals
CoverFields(locals) ==
    IF locals.handler = "update_book_handler" THEN locals.book_metadata_fields
    ELSE locals.metadata_fields

\* the coverImageUrl of a Books item: whether it is there, and its value
CoverOf(item) ==
    IF "coverImageUrl" \in DOMAIN item THEN <<TRUE, item.coverImageUrl>> ELSE <<FALSE>>

\* C15: update_book_handler and set_upload_metadata_handler look the cover up
\* exactly when the supplied author is non-empty and differs from the current
\* author of the book; after a successful update the record's coverImageUrl is
\* the URL the lookup returned, is an explicit null when the lookup returned
\* nothing, and is what it was when no lookup was made.
C15_CoverFollowsAuthor ==
    [][\A p \in Procs :
        /\ (/\ pc[p] \in {"update_get_current", "set_metadata_get_current"}
            /\ pc'[p] \in {"update_book_metadata", "set_metadata_update"}
            /\ loc[p].book_id \in DOMAIN books)
           => LET f == CoverFields(loc[p])
                  current_author == Get(books[loc[p].book_id], "author", "")
              IN  "coverImageUrl" \in DOMAIN CoverFields(loc'[p])
                  <=> /\ "author" \in DOMAIN f
                      /\ f["author"].v # ""
                      /\ f["author"].v # current_author
        /\ (/\ pc[p] \in {"update_book_metadata", "set_metadata_update"}
            /\ pc'[p] = "idle"
            /\ last'.response.statusCode = 200)
           => LET f == CoverFields(loc[p])
                  id == loc[p].book_id
              IN  IF "coverImageUrl" \in DOMAIN f
                  THEN CoverOf(books'[id]) = <<TRUE, PlainValue(f["coverImageUrl"])>>
                  ELSE CoverOf(books'[id]) = CoverOf(books[id])]_vars

\* the Books table after one more set_upload_metadata_handler invocation that
\* runs alone on `table` with the fields of the same body; the book exists
SetMetadataAgain(table, book_id, fields, cover_url) ==
    LET current_book == table[book_id]
        metadata_fields ==
            IF "author" \in DOMAIN fields
            THEN update_cover_on_author_change(
                     Get(current_book, "author", ""), fields["author"].v,
                     Get(current_book, "name", book_id), fields, cover_url)
            ELSE fields
    IN  UpdateItem(table, set_metadata_params(book_id, metadata_fields)).table

\* strings that str.strip() empties
BlankStrings == {JStr(""), JStr("  ")}

\* C16: when set_upload_metadata_handler has updated a book, the same call
\* made once more, whatever the cover lookup then answers, leaves the Books
\* table as the first call left it; and a call of an admin whose body names a
\* bookId and sets none of author, series_name, series_order is answered 200
\* and changes no record.
C16_SetMetadataIdempotent ==
    [][/\ \A p \in Procs :
            (/\ pc[p] = "set_metadata_update"
             /\ pc'[p] = "idle"
             /\ last'.response.statusCode = 200)
            => \A cover_url \in CoverUrls \cup {PyNone} :
                 SetMetadataAgain(books', loc[p].book_id,
                     [f \in DOMAIN loc[p].metadata_fields \ {"coverImageUrl"} |->
                         loc[p].metadata_fields[f]], cover_url) = books'
       /\ (/\ last'.handler = "set_upload_metadata_handler"
           /\ "admins" \in get_user_groups([claims |-> last'.call.claims])
           /\ "event" \in DOMAIN last'.call
           /\ last'.call.event.body.json
           /\ LET b == last'.call.event.body.obj
              IN  /\ "bookId" \in DOMAIN b
                  /\ "author" \in DOMAIN b => b["author"] \in BlankStrings
                  /\ "series_name" \in DOMAIN b => b["series_name"] \in BlankStrings
                  /\ "series_order" \in DOMAIN b => b["series_order"] = JNull)
          => /\ last'.response.statusCode = 200
             /\ UNCHANGED <<books, userBooks, blobs>>]_vars

\* a call that changed the author, and with it the cover, has returned 200
C16_Witness ==
    /\ last.handler = "set_upload_metadata_handler"
    /\ last.response.statusCode = 200
    /\ "metadata_fields" \in DOMAIN last.call
    /\ "coverImageUrl" \in DOMAIN last.call.metadata_fields
    /\ last.call.metadata_fields["coverImageUrl"] = JStr("c1")
    /\ books[last.call.book_id].coverImageUrl = "c1"

\* C17: set_upload_metadata_handler called by an admin with a valid body whose
\* bookId has no Books record returns 404.
C17_UnknownBookIs404 ==
    (/\ last.handler = "set_upload_metadata_handler"
     /\ "admins" \in get_user_groups([claims |-> last.call.claims])
     /\ IF "event" \in DOMAIN last.call
        THEN /\ last.call.event.body.json
             /\ LET b == last.call.event.body.obj
                IN  /\ "bookId" \in DOMAIN b
                    /\ b["bookId"].k = "str"
                    /\ b["bookId"].v \notin DOMAIN books \cup {""}
                    /\ ~IsError(set_metadata_validate(b))
        ELSE last.call.book_id \notin DOMAIN books)
    => last.response.statusCode = 404

\* C18: update_book_handler, called by a signed-in user for a book id with a
\* body whose other fields are valid: a series_order that is an integer in
\* [1, 100] is accepted; an integer outside is rejected with 400 and
\* "series_order must be between 1 and 100"; a value that is not a number (a
\* boolean, a list, a string without digits) is rejected with 400 and
\* "series_order must be an integer"; null is accepted and the updated record
\* has no series_order.
C18_SeriesOrderValidation ==
    (/\ last.handler = "update_book_handler"
     /\ "sub" \in DOMAIN last.call.claims
     /\ "id" \in DOMAIN last.call.event.pathParameters
     /\ last.call.event.body.json
     /\ "series_order" \in DOMAIN last.call.event.body.obj
     /\ ~IsError(update_book_validate(Drop(last.call.event.body.obj, "series_order"))))
    => LET series_order == last.call.event.body.obj["series_order"]
           response == last.response
       IN  IF series_order.k = "int" /\ series_order.v \in MIN_SERIES_ORDER..MAX_SERIES_ORDER
           THEN response.statusCode # 400
           ELSE IF series_order.k = "int"
           THEN response = error_response(400, "Bad Request",
                                          "series_order must be between 1 and 100")
           ELSE IF series_order = JNull
           THEN /\ response.statusCode # 400
                /\ response.statusCode = 200
                   => "series_order" \notin DOMAIN books[last.call.book_id]
           ELSE IF series_order.k = "str" /\ series_order.v \in DOMAIN DigitStrings
           THEN TRUE
           ELSE response = error_response(400, "Bad Request",
                                          "series_order must be an integer")

\* C19: when upload_handler answers 200, the Params of its presigned PUT
\* request have a Tagging entry that embeds every one of author, series_name
\* and series_order the body supplied, and the response echoes each of them.
C19_UploadTagsMetadata ==
    (/\ last.handler = "upload_handler"
     /\ last.response.statusCode = 200)
    => \A f \in {"author", "series_name", "series_order"}
                \cap DOMAIN last.call.event.body.obj :
         /\ "Tagging" \in DOMAIN last.call.params
         /\ f \in DOMAIN last.call.params["Tagging"]
         /\ f \in DOMAIN last.response.body

\* C20: a 200 response of get_book_handler carries the coverImageUrl of the
\* Books record it read, and a 200 response of list_handler carries, for
\* every scanned record that has a coverImageUrl, a book with that id and
\* that coverImageUrl.
C20_ResponsesCarryCover ==
    /\ (/\ last.handler = "get_book_handler"
        /\ last.response.statusCode = 200
        /\ "coverImageUrl" \in DOMAIN last.call.book_item)
       => /\ "coverImageUrl" \in DOMAIN last.response.body
          /\ last.response.body["coverImageUrl"] = last.call.book_item["coverImageUrl"]
    /\ (/\ last.handler = "list_handler"
        /\ last.response.statusCode = 200)
       => \A i \in DOMAIN last.call.items :
            "coverImageUrl" \in DOMAIN last.call.items[i]
            => \E j \in DOMAIN last.response.body.books :
                 LET book == last.response.body.books[j]
                 IN  /\ book.id = last.call.items[i].id
                     /\ "coverImageUrl" \in DOMAIN book
                     /\ book["coverImageUrl"] = last.call.items[i]["coverImageUrl"]

\* C21: in a 200 response of list_handler every book's `created` is greater
\* than or equal to that of the book that follows it.
C21_ListSortedByCreatedDesc ==
    (/\ last.handler = "list_handler"
     /\ last.response.statusCode = 200)
    => \A i \in 1..(Len(last.response.body.books) - 1) :
         last.response.body.books[i].created >= last.response.body.books[i + 1].created

\* the scan returned the older book first and the response has the newer first
C21_Witness ==
    /\ last.handler = "list_handler"
    /\ last.response.statusCode = 200
    /\ Len(last.call.items) = 2
    /\ last.call.items[1].created < last.call.items[2].created
    /\ last.response.body.books[1].id = last.call.items[2].id
    /\ last.response.body.books[2].id = last.call.items[1].id

\* C22: a scan is followed to its last page. list_handler builds its response
\* only when no key of Books lies behind the last one it scanned, and the
\* rows delete_book_handler's cleanup goes on to delete are all the rows of
\* UserBooks with the book's id, each once.
C22_ScansFollowEveryPage ==
    [][\A p \in Procs :
        /\ (/\ pc[p] = "list_scan"
            /\ pc'[p] = "list_query")
           => /\ Remaining(books, BooksOrder,
                     IF loc'[p].items = <<>> THEN PyNone
                     ELSE loc'[p].items[Len(loc'[p].items)].id) = <<>>
              /\ \A i, j \in DOMAIN loc'[p].items :
                   loc'[p].items[i].id = loc'[p].items[j].id => i = j
        /\ (/\ pc[p] = "cleanup_user_books"
            /\ pc'[p] # pc[p])
           => LET matching == {k \in DOMAIN userBooks : k[2] = loc[p].book_id}
                  found == IF pc'[p] = "cleanup_delete_item"
                           THEN loc'[p].user_book_items ELSE <<>>
              IN  /\ {<<found[i].userId, found[i].bookId>> : i \in DOMAIN found} = matching
                  /\ Len(found) = Cardinality(matching)]_vars

\* C23: upload_handler, called by an admin with a .zip filename and a valid
\* author, rejects a fileSize above 5 GiB with 400 and the "5GB" message and
\* answers 200 for every fileSize from 0 to 5 GiB; without fileSize it does
\* as for 0.
C23_FileSizeLimit ==
    (/\ last.handler = "upload_handler"
     /\ "admins" \in get_user_groups([claims |-> last.call.claims])
     /\ last.call.event.body.json
     /\ LET b == last.call.event.body.obj
        IN  /\ "filename" \in DOMAIN b
            /\ LowerEndsWithZip(b["filename"].v)
            /\ ~IsError(validate_string_field(b, "author", 500, FALSE))
            /\ Get(b, "fileSize", JInt(0)).k = "int"
            /\ Get(b, "fileSize", JInt(0)).v >= 0)
    => IF Get(last.call.event.body.obj, "fileSize", JInt(0)).v > 5 * 1024 * 1024
       THEN last.response = error_response(400, "Bad Request",
                                "File size exceeds maximum limit of 5GB")
       ELSE last.response.statusCode = 200

\* a file of exactly 5 GiB was accepted
C23_Witness ==
    /\ last.handler = "upload_handler"
    /\ last.call.event.body.json
    /\ "fileSize" \in DOMAIN last.call.event.body.obj
    /\ last.call.event.body.obj["fileSize"] = JInt(5 * 1024 * 1024)
    /\ last.response.statusCode = 200

\* C24: build_update_expression puts every field in exactly one clause,
\* REMOVE when allow_remove is set and the value is null or the empty string,
\* SET otherwise; the name map has an entry for every field, the value map
\* one for each SET field, bound to the field's value; without allow_remove
\* the REMOVE clause is empty.
C24_EveryFieldInOneClause ==
    last.handler = "build_update_expression"
    => LET fields == last.call.fields
           expr == last.response.update_expression
           names == last.response.expr_attr_names
           values == last.response.expr_attr_values
           set_names == {c[1] : c \in expr.SET}
       IN  /\ \A f \in DOMAIN fields :
                IF last.call.allow_remove /\ fields[f] \in {JNull, JStr("")}
                THEN /\ "#" \o f \in expr.REMOVE
                     /\ "#" \o f \notin set_names
                     /\ ":" \o f \notin DOMAIN values
                ELSE /\ <<"#" \o f, ":" \o f>> \in expr.SET
                     /\ "#" \o f \notin expr.REMOVE
                     /\ ":" \o f \in DOMAIN values
                     /\ values[":" \o f] = fields[f]
           /\ \A f \in DOMAIN fields : "#" \o f \in DOMAIN names /\ names["#" \o f] = f
           /\ Cardinality(DOMAIN names) = Cardinality(DOMAIN fields)
           /\ Cardinality(expr.SET) + Cardinality(expr.REMOVE) = Cardinality(DOMAIN fields)
           /\ Cardinality(DOMAIN values) = Cardinality(expr.SET)
           /\ ~last.call.allow_remove => expr.REMOVE = {}

\* one call that assigned a field, removed a null and removed an empty string
C24_Witness ==
    /\ last.handler = "build_update_expression"
    /\ last.call.allow_remove
    /\ last.call.fields = [author |-> JStr("a1"), series_order |-> JNull,
                           series_name |-> JStr("")]
    /\ last.response.update_expression.REMOVE = {"#series_order", "#series_name"}
    /\ last.response.update_expression.SET = {<<"#author", ":author">>}

StatusCodes == {200, 400, 401, 403, 404, 500}

\* C25: whatever a client-facing handler returns, also after store calls that
\* failed with a ClientError or with any other exception, is an envelope
\* whose statusCode is one of 200, 400, 401, 403, 404, 500.
C25_AlwaysAnEnvelope ==
    last.handler \in {"list_handler", "get_book_handler", "update_book_handler",
                      "delete_book_handler", "upload_handler",
                      "set_upload_metadata_handler"}
    => /\ DOMAIN last.response = {"statusCode", "body"}
       /\ last.response.statusCode \in StatusCodes

\* the blob delete of delete_book_handler raised something that is no
\* ClientError and the handler answered 500
C25_Witness ==
    /\ last.handler = "delete_book_handler"
    /\ "s3_url" \in DOMAIN last.call
    /\ last.response.statusCode = 500
    /\ last.call.book_id \in DOMAIN books
    /\ ParseS3Url(last.call.s3_url).key \in DOMAIN blobs

\* C26: when update_book_handler, delete_book_handler, upload_handler or
\* set_upload_metadata_handler answers 400, 401 or 403, the invocation has
\* made no store call before (it begins and ends in the same step) and Books,
\* UserBooks and the blob store are as they were.
C26_RejectionsWriteNothing ==
    [][(/\ last'.handler \in {"update_book_handler", "delete_book_handler",
                              "upload_handler", "set_upload_metadata_handler"}
        /\ last'.response.statusCode \in {400, 401, 403})
       => /\ UNCHANGED <<books, userBooks, blobs>>
          /\ \A p \in Procs : pc[p] # "idle" => pc'[p] # "idle"]_vars

\* update_book_handler rejected a body that carries `read` together with a
\* series_order out of range
C26_Witness ==
    /\ last.handler = "update_book_handler"
    /\ last.response.statusCode = 400
    /\ last.call.event.body.json
    /\ "read" \in DOMAIN last.call.event.body.obj
    /\ "series_order" \in DOMAIN last.call.event.body.obj
    /\ userBooks = EmptyMap

\* C27: the writes of update_book_handler never undo what another invocation
\* wrote to other state. The Books step sets or removes exactly the fields
\* of its own body on its own book and leaves every other attribute and
\* every other book as it finds them at that moment; the UserBooks step
\* writes the caller's own row for the book and no other row. So whatever
\* the interleaving, a field or row is changed only by an invocation that
\* writes it, and a field two invocations write ends with one of their values.
C27_NoLostUpdate ==
    [][\A p \in Procs :
        /\ (/\ pc[p] = "update_book_metadata"
            /\ pc'[p] = "idle"
            /\ loc[p].book_id \in DOMAIN books)
           => LET id == loc[p].book_id
                  f == loc[p].book_metadata_fields
              IN  /\ \A other \in DOMAIN books \cup DOMAIN books' :
                        other # id => /\ other \in DOMAIN books \cap DOMAIN books'
                                      /\ books'[other] = books[other]
                  /\ id \in DOMAIN books'
                  /\ \A a \in DOMAIN books[id] \cup DOMAIN books'[id] \cup DOMAIN f :
                        IF a \in DOMAIN f
                        THEN IF f[a] \in {JNull, JStr("")}
                             THEN a \notin DOMAIN books'[id]
                             ELSE a \in DOMAIN books'[id] /\ books'[id][a] = f[a].v
                        ELSE /\ a \in DOMAIN books[id] <=> a \in DOMAIN books'[id]
                             /\ a \in DOMAIN books[id] => books'[id][a] = books[id][a]
                  /\ userBooks' = userBooks
        /\ (/\ pc[p] = "update_user_book_status"
            /\ pc'[p] # pc[p])
           => LET key == <<loc[p].user_id, loc[p].book_id>>
              IN  /\ DOMAIN userBooks' = DOMAIN userBooks \cup {key}
                  /\ userBooks'[key].read = loc[p].user_specific_fields["read"]
                  /\ \A k \in DOMAIN userBooks : k # key => userBooks'[k] = userBooks[k]
                  /\ books' = books
        /\ (/\ pc[p] \in {"update_get_current", "update_fetch_book"}
            /\ pc'[p] # pc[p])
           => /\ books' = books
              /\ userBooks' = userBooks]_vars

\* two updates of the same book ran at the same time, one writing author and
\* series_order, the other series_name and series_order: the record has the
\* author of the one and the series_name of the other
C27_Witness ==
    /\ calls = 2
    /\ last.handler = "update_book_handler"
    /\ last.response.statusCode = 200
    /\ "book_metadata_fields" \in DOMAIN last.call
    /\ "series_name" \in DOMAIN last.call.book_metadata_fields
    /\ "author" \notin DOMAIN last.call.book_metadata_fields
    /\ "k1" \in DOMAIN books
    /\ "author" \in DOMAIN books["k1"]
    /\ books["k1"].author = "a2"
    /\ "series_name" \in DOMAIN books["k1"]
    /\ books["k1"].series_name = "s1"

\* C28: with store calls that do not fail, a delete_book_handler invocation
\* that got past its checks returns 200 exactly when its own conditional
\* delete removed the record, and otherwise 404, and then the record was
\* already gone, removed by a delete that returned 200; after either answer
\* the record is absent. Of two invocations for the same existing id only
\* one can remove the record: one returns 200, the other 404.
C28_OneDeleteWins ==
    [][\A p \in Procs :
        (/\ pc[p] \in {"delete_get_book", "delete_book_record"}
         /\ pc'[p] = "idle")
        => LET id == loc[p].book_id
               status == last'.response.statusCode
           IN  /\ status \in {200, 404}
               /\ status = 200 <=> (id \in DOMAIN books /\ id \notin DOMAIN books')
               /\ status = 404 => /\ id \notin DOMAIN books
                                  /\ id = InitialItem.id => id \in deleted
               /\ id \notin DOMAIN books']_vars

\* the second of two concurrent deletes of 'k1': it had found the record and
\* its blob, and its conditional delete was answered 404
C28_Witness ==
    /\ calls = 2
    /\ last.handler = "delete_book_handler"
    /\ "s3_url" \in DOMAIN last.call
    /\ last.call.book_id = "k1"
    /\ last.response.statusCode = 404
    /\ "k1" \in deleted
    /\ "k1" \notin DOMAIN books

\* C29: the `read` value of a 200 response of update_book_handler equals the
\* read status the caller's UserBooks row holds when the handler returns
\* (false when the caller has no row), whether the body carried `read` or only
\* metadata fields.
C29_ResponseReadIsStoredRead ==
    (/\ last.handler = "update_book_handler"
     /\ last.response.statusCode = 200)
    => last.response.body.read = RowRead(last.call.user_id, last.call.book_id)

\* C30: when a delete invocation that went as far as the blob has returned,
\* whatever its status code, the Books record of its book, if still present,
\* refers to a blob that exists in the bucket: the handler never ends with
\* the blob deleted and the record left in place.
C30_RecordKeepsItsBlob ==
    (/\ last.handler = "delete_book_handler"
     /\ "s3_url" \in DOMAIN last.call
     /\ last.call.book_id \in DOMAIN books)
    => ParseS3Url(books[last.call.book_id].s3_url).key \in DOMAIN blobs
====
